---- MODULE Spec2Model ----
(***************************************************************************)
(* Shopping cart and checkout of the e-commerce backend                    *)
(* (services/shopping_cart_service.py, services/shopping_cart_item_        *)
(* service.py, services/order_service.py, services/product_service.py).    *)
(*                                                                         *)
(* The database tables are sets of rows.  A worker executes one service    *)
(* call at a time; every query and every commit of a call is one step, so  *)
(* that two workers interleave between the statements of the services.     *)
(* Money is counted in integer minor units.                                *)
(***************************************************************************)
EXTENDS Integers, FiniteSets, Sequences, TLC

\* ---------------------------------------------------------------- bounds
Procs == {1, 2}
Customers == {1, 2}
Products == {1, 2}
NoProduct == Cardinality(Products) + 1
MaxQty == 2
MaxPrice == 2
MaxOps == 2
MaxOverlap == 1

QtyArgs == 0..MaxQty
\* the (product, quantity) arguments of an add: every valid pair, one with a
\* quantity that is not positive, one with a product that does not exist
AddArgs == (Products \X (1..MaxQty)) \cup {<<1, 0>>, <<NoProduct, 1>>}
Prices == 1..MaxPrice
\* the (product, price) arguments of a price update: every valid pair, one
\* with a negative price, one with a product that does not exist
PriceUpdateArgs == (Products \X Prices) \cup {<<1, -1>>, <<NoProduct, 1>>}

CartIdArgs == 1..2

VARIABLES carts, items, orders, orderItems, price, nextCartId, nextItemId,
          session, pc, call, loc, res, snap, last, nOps, nOverlap,
          deleted_at, http

vars == <<carts, items, orders, orderItems, price, nextCartId, nextItemId,
          session, pc, call, loc, res, snap, last, nOps, nOverlap,
          deleted_at, http>>

\* the tables.  The rows of the products table are the domain of price: a
\* product that is physically deleted leaves it.
db == <<carts, items, orders, orderItems, price, nextCartId, nextItemId>>

\* ---------------------------------------------------------------- helpers
RECURSIVE SumSubtotal(_)
SumSubtotal(S) ==
    IF S = {} THEN 0
    ELSE LET x == CHOOSE y \in S : TRUE IN x.subtotal + SumSubtotal(S \ {x})

RECURSIVE SumQuantity(_)
SumQuantity(S) ==
    IF S = {} THEN 0
    ELSE LET x == CHOOSE y \in S : TRUE IN x.quantity + SumQuantity(S \ {x})

MaxIdOf(S) == IF S = {} THEN 0 ELSE (CHOOSE r \in S : \A s \in S : r.id >= s.id).id

MinId(S) == CHOOSE r \in S : \A s \in S : r.id <= s.id

\* a variant of CartsOf: the query without its filter on the customer
CartsOf_any(c) == carts

\* ShoppingCart.query.filter_by(customer_id=customer_id).first()
CartsOf(c) == {k \in carts : k.customer_id = c}

\* cart.items, the relationship ShoppingCart.items
ItemsOfCart(cid) == {i \in items : i.cart_id = cid}

ItemsOfCustomer(c) == {i \in items : \E k \in CartsOf(c) : i.cart_id = k.id}

\* a variant of ItemsFor: the query finds no line
ItemsFor_nothing(cid, p) == {}

\* ShoppingCartItem.query.filter_by(cart_id=..., product_id=...)
ItemsFor(cid, p) == {i \in items : i.cart_id = cid /\ i.product_id = p}

\* ShoppingCart.calculate_total
calculate_total(cid) == SumSubtotal(ItemsOfCart(cid))

NoCall == [op |-> "none", c |-> 0, p |-> 0, q |-> 0]
NoLoc == [cart |-> 0, price |-> 0, item |-> {}, loaded |-> {}, order_items |-> {},
          order |-> 0, inClear |-> FALSE]
\* db.session of a worker: the rows it has added or flushed and not committed
NoSession == [orders |-> {}, orderItems |-> {}]
NoSnap == [lines |-> {}, orders |-> {}, orderItems |-> {}]
NoLast == [op |-> "none", c |-> 0, p |-> 0, q |-> 0, res |-> "none", pre |-> 0]
\* no request has been answered yet
NoHttp == [endpoint |-> "none", required |-> "none", header |-> <<>>,
           token |-> [sig |-> FALSE, exp |-> 0, role |-> "none"],
           status |-> 0, error |-> "none", invoked |-> FALSE]

\* the rows the tests seed (tests/db_seed.py, tests/test_shopping_cart_item.py
\* seed_data): the customers, the products at one price, the cart of customer 1
\* with one line of two of product 1, one order with one item
SeedPrice == 1
SeedCarts == {[id |-> 1, customer_id |-> 1]}
SeedItems == {[id |-> 1, cart_id |-> 1, product_id |-> 1, quantity |-> 2,
               subtotal |-> 2 * SeedPrice]}
SeedOrders == {[id |-> 1, customer_id |-> 1, total_price |-> 2 * SeedPrice]}
SeedOrderItems == {[id |-> 1, order_id |-> 1, product_id |-> 1, quantity |-> 2,
                    price_at_order |-> SeedPrice, subtotal |-> 2 * SeedPrice]}

Init ==
    /\ carts = SeedCarts
    /\ items = SeedItems
    /\ orders = SeedOrders
    /\ orderItems = SeedOrderItems
    /\ price = [p \in Products |-> SeedPrice]
    /\ nextCartId = MaxIdOf(SeedCarts) + 1
    /\ nextItemId = MaxIdOf(SeedItems) + 1
    /\ session = [p \in Procs |-> NoSession]
    /\ pc = [p \in Procs |-> "idle"]
    /\ call = [p \in Procs |-> NoCall]
    /\ loc = [p \in Procs |-> NoLoc]
    /\ res = [p \in Procs |-> "none"]
    /\ snap = [p \in Procs |-> NoSnap]
    /\ last = NoLast
    /\ nOps = 0
    /\ nOverlap = 0
    /\ deleted_at = {}
    /\ http = NoHttp

\* ------------------------------------------------------- call and return
\* the cart lines a call is about: those of the customer's cart, or of the
\* cart whose id is the argument (ShoppingCartItemService.add_item)
LinesOfCall(c) ==
    IF c.op = "add_item" THEN ItemsOfCart(c.c)
    ELSE IF c.op \in {"update_product", "update_quantity", "http", "soft_delete",
                     "add_item_to_order", "remove_item_from_order",
                     "update_item_in_order", "clear_items_from_order",
                     "delete_order", "delete_product"} THEN {}
    ELSE IF c.op \in {"update_item_quantity", "remove_item", "remove_cart_item"} THEN items
    ELSE ItemsOfCustomer(c.c)

\* what the caller can compare the outcome with: the lines and the orders
\* at the moment of the call
Snapshot(c) == [lines |-> LinesOfCall(c), orders |-> orders, orderItems |-> orderItems]

\* quantity the (cart, product) pair of the call of worker w had when it began
PreQuantity(w) == SumQuantity({i \in snap[w].lines : i.product_id = call[w].p})

\* the last call that has returned, when it was a successful add
Returned(w) ==
    IF pc[w] = "done"
    THEN IF call[w].op \in {"add", "add_item"} /\ res[w] = "ok"
         THEN [op |-> call[w].op, c |-> call[w].c, p |-> call[w].p, q |-> call[w].q,
               res |-> res[w], pre |-> PreQuantity(w)]
         ELSE NoLast
    ELSE last

\* a worker takes a service call once its previous call has returned.  The
\* workers are interchangeable: of the free ones the lowest takes the call,
\* so the calls of a higher worker overlap a call of a lower one.
Begin(w, c, label, r) ==
    /\ pc[w] \in {"idle", "done"}
    /\ \A o \in Procs : o < w => pc[o] \notin {"idle", "done"}
    /\ nOps < MaxOps
    /\ w > 1 => nOverlap < MaxOverlap
    /\ nOps' = nOps + 1
    /\ nOverlap' = IF w > 1 THEN nOverlap + 1 ELSE nOverlap
    /\ call' = [call EXCEPT ![w] = c]
    /\ snap' = [snap EXCEPT ![w] = Snapshot(c)]
    /\ last' = Returned(w)
    /\ pc' = [pc EXCEPT ![w] = label]
    /\ res' = [res EXCEPT ![w] = r]

\* a service call ends: it returns (r = "ok") or raises r
Finish(w, r) ==
    /\ pc' = [pc EXCEPT ![w] = "done"]
    /\ res' = [res EXCEPT ![w] = r]

\* db.session.commit(): the rows pending in the worker's session are stored
Commit(w) ==
    /\ orders' = orders \cup session[w].orders
    /\ orderItems' = orderItems \cup session[w].orderItems
    /\ session' = [session EXCEPT ![w] = NoSession]

\* db.session.rollback(): the rows pending in the worker's session are dropped
Rollback(w) ==
    /\ session' = [session EXCEPT ![w] = NoSession]
    /\ UNCHANGED <<orders, orderItems>>

\* ------------------------------------------ ShoppingCartService, cart part
\* where a call continues once get_cart_by_customer has returned the cart
AfterCart(w) ==
    CASE call[w].op = "get_cart" -> "done"
      [] call[w].op = "add" -> "get_product"
      [] call[w].op = "clear" -> "clear_items"
      [] call[w].op = "remove" -> "remove_find"
      [] call[w].op = "checkout" -> IF loc[w].inClear THEN "clear_items" ELSE "checkout_items"

\* get_cart_by_customer, line 25: the query; an existing cart is returned
get_cart_by_customer(w) ==
    /\ pc[w] = "get_cart"
    /\ IF CartsOf(call[w].c) # {}
       THEN /\ loc' = [loc EXCEPT ![w].cart = MinId(CartsOf(call[w].c)).id]
            /\ pc' = [pc EXCEPT ![w] = AfterCart(w)]
            /\ res' = [res EXCEPT ![w] = IF AfterCart(w) = "done" THEN "ok" ELSE @]
       ELSE /\ pc' = [pc EXCEPT ![w] = "new_cart"]
            /\ UNCHANGED <<loc, res>>
    /\ UNCHANGED <<db, session, call, snap, last, nOps, nOverlap>>
    /\ UNCHANGED <<http, deleted_at>>

\* get_cart_by_customer, lines 27-33: the insert and its commit.  customer_id
\* is unique (models/shopping_cart.py line 11): a second row for the customer
\* is an IntegrityError, which is rolled back and raised as a ValueError.
new_cart(w) ==
    /\ pc[w] = "new_cart"
    /\ IF CartsOf(call[w].c) # {}
       THEN /\ Finish(w, "DatabaseError")
            /\ Rollback(w)
            /\ UNCHANGED <<carts, nextCartId, loc>>
       ELSE /\ carts' = carts \cup {[id |-> nextCartId, customer_id |-> call[w].c]}
            /\ Commit(w)
            /\ nextCartId' = nextCartId + 1
            /\ loc' = [loc EXCEPT ![w].cart = nextCartId]
            /\ pc' = [pc EXCEPT ![w] = AfterCart(w)]
            /\ res' = [res EXCEPT ![w] = IF AfterCart(w) = "done" THEN "ok" ELSE @]
    /\ UNCHANGED <<items, price, nextItemId, call, snap, last, nOps, nOverlap>>
    /\ UNCHANGED <<http, deleted_at>>

\* a caller asks for the cart of a customer
call_get_cart(w) ==
    /\ \E c \in Customers :
          Begin(w, [op |-> "get_cart", c |-> c, p |-> 0, q |-> 0], "get_cart", "none")
    /\ loc' = [loc EXCEPT ![w] = NoLoc]
    /\ UNCHANGED <<db, session>>
    /\ UNCHANGED <<http, deleted_at>>

\* add_item_to_cart, lines 54-58: the quantity check comes before the cart
add_item_to_cart(w) ==
    /\ \E c \in Customers, a \in AddArgs :
          Begin(w, [op |-> "add", c |-> c, p |-> a[1], q |-> a[2]],
                IF a[2] <= 0 THEN "done" ELSE "get_cart",
                IF a[2] <= 0 THEN "InvalidQuantity" ELSE "none")
    /\ loc' = [loc EXCEPT ![w] = NoLoc]
    /\ UNCHANGED <<db, session>>
    /\ UNCHANGED <<http, deleted_at>>

\* ShoppingCartItemService.add_item, lines 109-111: the cart id is an argument
add_item(w) ==
    /\ \E k \in CartIdArgs, a \in AddArgs :
          /\ Begin(w, [op |-> "add_item", c |-> k, p |-> a[1], q |-> a[2]],
                   IF a[2] <= 0 THEN "done" ELSE "get_product",
                   IF a[2] <= 0 THEN "InvalidQuantity" ELSE "none")
          /\ loc' = [loc EXCEPT ![w] = [NoLoc EXCEPT !.cart = k]]
    /\ UNCHANGED <<db, session>>
    /\ UNCHANGED <<http, deleted_at>>

\* Product.query.get(product_id): add_item_to_cart 59-61, add_item 113-115
get_product(w) ==
    /\ pc[w] = "get_product"
    /\ IF call[w].p \notin DOMAIN price
       THEN /\ Finish(w, "ProductNotFound")
            /\ UNCHANGED loc
       ELSE /\ loc' = [loc EXCEPT ![w].price = price[call[w].p]]
            /\ pc' = [pc EXCEPT ![w] = "find_item"]
            /\ UNCHANGED res
    /\ UNCHANGED <<db, session, call, snap, last, nOps, nOverlap>>
    /\ UNCHANGED <<http, deleted_at>>

\* ShoppingCartItem.query.filter_by(cart_id, product_id).first():
\* add_item_to_cart 63, add_item 117
find_item(w) ==
    /\ pc[w] = "find_item"
    /\ loc' = [loc EXCEPT ![w].item =
                  IF ItemsFor(loc[w].cart, call[w].p) = {} THEN {}
                  ELSE {MinId(ItemsFor(loc[w].cart, call[w].p))}]
    /\ pc' = [pc EXCEPT ![w] = "save_item"]
    /\ UNCHANGED <<db, session, call, res, snap, last, nOps, nOverlap>>
    /\ UNCHANGED <<http, deleted_at>>

\* a variant of AddedTo: the requested quantity replaces the one read
AddedTo_replacing(it, q, pr) == [it EXCEPT !.quantity = q, !.subtotal = q * pr]

\* the line an add writes over the line it has read: the quantity it read plus
\* the requested one, the subtotal from the price it read
AddedTo(it, q, pr) == [it EXCEPT !.quantity = it.quantity + q,
                                 !.subtotal = (it.quantity + q) * pr]

\* add_item_to_cart 64-78, add_item 119-131: insert or update, then commit.
\* The insert needs the cart row (foreign key); an update of a row that is
\* gone matches no row (StaleDataError).  Both are SQLAlchemyErrors.
save_item(w) ==
    /\ pc[w] = "save_item"
    /\ IF loc[w].item = {}
       THEN IF \E k \in carts : k.id = loc[w].cart
            THEN /\ items' = items \cup {[id |-> nextItemId, cart_id |-> loc[w].cart,
                                          product_id |-> call[w].p, quantity |-> call[w].q,
                                          subtotal |-> loc[w].price * call[w].q]}
                 /\ nextItemId' = nextItemId + 1
                 /\ Commit(w)
                 /\ Finish(w, "ok")
            ELSE /\ Finish(w, "DatabaseError")
                 /\ Rollback(w)
                 /\ UNCHANGED <<items, nextItemId>>
       ELSE LET it == CHOOSE i \in loc[w].item : TRUE
                cur == {i \in items : i.id = it.id}
            IN IF cur = {}
               THEN /\ Finish(w, "DatabaseError")
                    /\ Rollback(w)
                    /\ UNCHANGED <<items, nextItemId>>
               ELSE /\ items' = (items \ cur) \cup {AddedTo(it, call[w].q, loc[w].price)}
                    /\ Commit(w)
                    /\ Finish(w, "ok")
                    /\ UNCHANGED nextItemId
    /\ UNCHANGED <<carts, price, nextCartId, call, loc, snap, last, nOps, nOverlap>>
    /\ UNCHANGED <<http, deleted_at>>

\* a caller clears the cart of a customer
clear_cart(w) ==
    /\ \E c \in Customers :
          Begin(w, [op |-> "clear", c |-> c, p |-> 0, q |-> 0], "get_cart", "none")
    /\ loc' = [loc EXCEPT ![w] = NoLoc]
    /\ UNCHANGED <<db, session>>
    /\ UNCHANGED <<http, deleted_at>>

\* a variant of clear_items: the loop marks the first item only
clear_items_first(w) ==
    /\ pc[w] = "clear_items"
    /\ loc' = [loc EXCEPT ![w].loaded =
                  IF ItemsOfCart(loc[w].cart) = {} THEN {}
                  ELSE {MinId(ItemsOfCart(loc[w].cart)).id}]
    /\ pc' = [pc EXCEPT ![w] = "clear_commit"]
    /\ UNCHANGED <<db, session, call, res, snap, last, nOps, nOverlap>>
    /\ UNCHANGED <<http, deleted_at>>

\* clear_cart, lines 132-133: cart.items is loaded, each item marked deleted
clear_items(w) ==
    /\ pc[w] = "clear_items"
    /\ loc' = [loc EXCEPT ![w].loaded = {i.id : i \in ItemsOfCart(loc[w].cart)}]
    /\ pc' = [pc EXCEPT ![w] = "clear_commit"]
    /\ UNCHANGED <<db, session, call, res, snap, last, nOps, nOverlap>>
    /\ UNCHANGED <<http, deleted_at>>

\* clear_cart, lines 134-135: the commit deletes the loaded rows; checkout_cart
\* then returns its summary (lines 185-189)
clear_commit(w) ==
    /\ pc[w] = "clear_commit"
    /\ items' = {i \in items : i.id \notin loc[w].loaded}
    /\ Commit(w)
    /\ Finish(w, "ok")
    /\ UNCHANGED <<carts, price, nextCartId, nextItemId, call, loc, snap, last, nOps, nOverlap>>
    /\ UNCHANGED <<http, deleted_at>>

\* ------------------------------------------------ OrderService.create_order
\* two other builds of the models package, for comparison: one that exports
\* Order_Item as well (line 66 of the service then finds OrderItem unbound),
\* and one in which both names resolve
ImportOrderService_NameError == "NameError"

ImportOrderService_resolved == "ok"

\* How the names of services/order_service.py resolve.  Line 1 imports
\* Order_Item from models, and models/__init__.py defines OrderItem only: the
\* module cannot be imported ("ImportError").
ImportOrderService == "ImportError"

AllOrders == orders \cup UNION {session[w].orders : w \in Procs}
AllOrderItems == orderItems \cup UNION {session[w].orderItems : w \in Procs}

\* create_order, lines 30-81.  The result is the exception raised ("none" when
\* the order is returned) and the Order and OrderItem rows the call has added
\* to the session: committed at line 79, left pending by a raise.
create_order(customer_id, order_items) ==
    LET newId == MaxIdOf(AllOrders) + 1
        new_order == [id |-> newId, customer_id |-> customer_id, total_price |-> 0]
        Before(oi) == {x \in order_items : x.line < oi.line}
        Rejected(oi) == IF oi.quantity <= 0 THEN "InvalidQuantity"
                        ELSE IF oi.product_id \notin DOMAIN price THEN "ProductNotFound"
                        ELSE IF ImportOrderService = "NameError" THEN "NameError"
                        ELSE "none"
        new_order_item(oi) ==
            [id |-> MaxIdOf(AllOrderItems) + Cardinality(Before(oi)) + 1,
             order_id |-> newId, product_id |-> oi.product_id, quantity |-> oi.quantity,
             price_at_order |-> oi.price_at_order,
             subtotal |-> oi.quantity * oi.price_at_order]
        bad == {oi \in order_items : Rejected(oi) # "none"}
        all == {new_order_item(oi) : oi \in order_items}
    IN IF customer_id \notin Customers
       THEN [raised |-> "CustomerNotFound", orders |-> {}, orderItems |-> {}]
       ELSE IF order_items = {}
       THEN [raised |-> "NoItems", orders |-> {}, orderItems |-> {}]
       ELSE IF bad # {}
       THEN LET b == CHOOSE x \in bad : \A y \in bad : x.line <= y.line
            IN [raised |-> Rejected(b), orders |-> {new_order},
                orderItems |-> {new_order_item(oi) : oi \in Before(b)}]
       ELSE [raised |-> "none",
             orders |-> {[new_order EXCEPT !.total_price = SumSubtotal(all)]},
             orderItems |-> all]

\* ------------------------------------- ShoppingCartService.checkout_cart
\* a caller checks the cart of a customer out
checkout_cart(w) ==
    /\ \E c \in Customers :
          Begin(w, [op |-> "checkout", c |-> c, p |-> 0, q |-> 0], "get_cart", "none")
    /\ loc' = [loc EXCEPT ![w] = NoLoc]
    /\ UNCHANGED <<db, session>>
    /\ UNCHANGED <<http, deleted_at>>

\* checkout_cart, lines 164-171: the order item built from a cart line; the
\* unit price is the line's subtotal divided by its quantity
OrderItemOf(i) == [line |-> i.id, product_id |-> i.product_id, quantity |-> i.quantity,
                   price_at_order |-> i.subtotal \div i.quantity]

\* a variant of CartIsEmpty: the check of line 160 is missing
CartIsEmpty_unchecked(cid) == FALSE

\* checkout_cart, line 160: not cart.items
CartIsEmpty(cid) == ItemsOfCart(cid) = {}

\* checkout_cart, lines 160-171: the empty-cart check and the order items
checkout_items(w) ==
    /\ pc[w] = "checkout_items"
    /\ IF CartIsEmpty(loc[w].cart)
       THEN /\ Finish(w, "EmptyCart")
            /\ UNCHANGED loc
       ELSE /\ loc' = [loc EXCEPT ![w].order_items =
                          {OrderItemOf(i) : i \in ItemsOfCart(loc[w].cart)}]
            /\ pc' = [pc EXCEPT ![w] = "create_order"]
            /\ UNCHANGED res
    /\ UNCHANGED <<db, session, call, snap, last, nOps, nOverlap>>
    /\ UNCHANGED <<http, deleted_at>>

\* checkout_cart, lines 174-183: the import of OrderService and the call of
\* create_order; after it clear_cart runs (get_cart_by_customer first)
checkout_create_order(w) ==
    /\ pc[w] = "create_order"
    /\ IF ImportOrderService = "ImportError"
       THEN /\ Finish(w, "ImportError")
            /\ UNCHANGED <<orders, orderItems, session, loc>>
       ELSE LET r == create_order(call[w].c, loc[w].order_items)
            IN IF r.raised # "none"
               THEN /\ Finish(w, r.raised)
                    /\ session' = [session EXCEPT ![w] =
                                      [orders |-> @.orders \cup r.orders,
                                       orderItems |-> @.orderItems \cup r.orderItems]]
                    /\ UNCHANGED <<orders, orderItems, loc>>
               ELSE /\ orders' = orders \cup session[w].orders \cup r.orders
                    /\ orderItems' = orderItems \cup session[w].orderItems \cup r.orderItems
                    /\ session' = [session EXCEPT ![w] = NoSession]
                    /\ loc' = [loc EXCEPT ![w].order = MaxIdOf(r.orders), ![w].inClear = TRUE]
                    /\ pc' = [pc EXCEPT ![w] = "get_cart"]
                    /\ UNCHANGED res
    /\ UNCHANGED <<carts, items, price, nextCartId, nextItemId, call, snap, last, nOps, nOverlap>>
    /\ UNCHANGED <<http, deleted_at>>

\* ------------------------------------------- ProductService.update_product
\* a variant of update_product: the new price is written through to the
\* order items of the product
update_product_repricing(w) ==
    /\ \E a \in PriceUpdateArgs :
          LET p == a[1]
              v == a[2]
          IN
          /\ Begin(w, [op |-> "update_product", c |-> 0, p |-> p, q |-> v], "done",
                   IF p \in DOMAIN price /\ v >= 0 THEN "ok" ELSE "UpdateError")
          /\ IF p \in DOMAIN price /\ v >= 0
             THEN /\ price' = [price EXCEPT ![p] = v]
                  /\ orderItems' = {IF oi.product_id = p
                                    THEN [oi EXCEPT !.price_at_order = v,
                                                    !.subtotal = oi.quantity * v]
                                    ELSE oi : oi \in orderItems}
                  /\ UNCHANGED <<orders, session>>
             ELSE /\ Rollback(w)
                  /\ UNCHANGED price
    /\ loc' = [loc EXCEPT ![w] = NoLoc]
    /\ UNCHANGED <<carts, items, nextCartId, nextItemId>>
    /\ UNCHANGED <<http, deleted_at>>

\* update_product, lines 145-164, for the price: an unknown product or a
\* negative price raises, the session is rolled back
update_product(w) ==
    /\ \E a \in PriceUpdateArgs :
          LET p == a[1]
              v == a[2]
          IN
          /\ Begin(w, [op |-> "update_product", c |-> 0, p |-> p, q |-> v], "done",
                   IF p \in DOMAIN price /\ v >= 0 THEN "ok" ELSE "UpdateError")
          /\ IF p \in DOMAIN price /\ v >= 0
             THEN /\ price' = [price EXCEPT ![p] = v]
                  /\ Commit(w)
             ELSE /\ Rollback(w)
                  /\ UNCHANGED price
    /\ loc' = [loc EXCEPT ![w] = NoLoc]
    /\ UNCHANGED <<carts, items, nextCartId, nextItemId>>
    /\ UNCHANGED <<http, deleted_at>>

\* ------------------------------------------ ShoppingCartItem.update_quantity
\* models/shopping_cart_item.py, lines 49-55: the quantity of a line is
\* replaced, the subtotal is the quantity times the product's price
update_quantity(w) ==
    /\ \E it \in items, q \in QtyArgs :
          /\ Begin(w, [op |-> "update_quantity", c |-> it.id, p |-> it.product_id, q |-> q],
                   "done", IF q <= 0 THEN "InvalidQuantity" ELSE "ok")
          /\ IF q <= 0
             THEN UNCHANGED <<items, orders, orderItems, session>>
             ELSE /\ items' = (items \ {it}) \cup
                                {[it EXCEPT !.quantity = q, !.subtotal = q * price[it.product_id]]}
                  /\ Commit(w)
    /\ loc' = [loc EXCEPT ![w] = NoLoc]
    /\ UNCHANGED <<carts, price, nextCartId, nextItemId>>
    /\ UNCHANGED <<http, deleted_at>>

\* ---------------------------------- ShoppingCartService.remove_item_from_cart
\* a caller removes the line of a product from the cart of a customer
remove_item_from_cart(w) ==
    /\ \E c \in Customers, p \in Products :
          Begin(w, [op |-> "remove", c |-> c, p |-> p, q |-> 0], "get_cart", "none")
    /\ loc' = [loc EXCEPT ![w] = NoLoc]
    /\ UNCHANGED <<db, session, http, deleted_at>>

\* remove_item_from_cart, lines 103-105: the query; no line raises ValueError
remove_find(w) ==
    /\ pc[w] = "remove_find"
    /\ IF ItemsFor(loc[w].cart, call[w].p) = {}
       THEN /\ Finish(w, "ItemNotFound")
            /\ UNCHANGED loc
       ELSE /\ loc' = [loc EXCEPT ![w].loaded = {MinId(ItemsFor(loc[w].cart, call[w].p)).id}]
            /\ pc' = [pc EXCEPT ![w] = "remove_commit"]
            /\ UNCHANGED res
    /\ UNCHANGED <<db, session, call, snap, last, nOps, nOverlap, http, deleted_at>>

\* remove_item_from_cart, lines 107-109: the delete and its commit
remove_commit(w) ==
    /\ pc[w] = "remove_commit"
    /\ items' = {i \in items : i.id \notin loc[w].loaded}
    /\ Commit(w)
    /\ Finish(w, "ok")
    /\ UNCHANGED <<carts, price, nextCartId, nextItemId, call, loc, snap, last, nOps,
                   nOverlap, http, deleted_at>>

\* ---------------------------- ShoppingCartItemService, calls by line id
\* the line ids of the calls: those of the lines, and one that no line has
ItemIdArgs == {i.id : i \in items} \cup {nextItemId}

\* ShoppingCartItemService.get_item_by_id, called at lines 54 and 82: the
\* class defines no such method, the call raises AttributeError
get_item_by_id(item_id) == "AttributeError"

\* update_item_quantity, lines 50-62: the quantity check, then the lookup of
\* the line.  An AttributeError is not an SQLAlchemyError: it leaves the call.
update_item_quantity(w) ==
    /\ \E id \in ItemIdArgs, q \in QtyArgs :
          Begin(w, [op |-> "update_item_quantity", c |-> id, p |-> 0, q |-> q], "done",
                IF q <= 0 THEN "InvalidQuantity" ELSE get_item_by_id(id))
    /\ loc' = [loc EXCEPT ![w] = NoLoc]
    /\ UNCHANGED <<db, session, http, deleted_at>>

\* remove_item, lines 81-88: the lookup of the line comes first
remove_item(w) ==
    /\ \E id \in ItemIdArgs :
          Begin(w, [op |-> "remove_item", c |-> id, p |-> 0, q |-> 0], "done",
                get_item_by_id(id))
    /\ loc' = [loc EXCEPT ![w] = NoLoc]
    /\ UNCHANGED <<db, session, http, deleted_at>>

\* the view remove_cart_item(cart_id, item_id), routes/shopping_cart_bp.py
\* lines 266-272: the module does not import ShoppingCartItemService, line 269
\* raises NameError, which the view answers as an error (status 400).  (The
\* same view of routes/shopping_cart_item_bp.py passes cart_id to
\* remove_item(item_id): a TypeError, answered the same way.)
remove_cart_item(w) ==
    /\ \E k \in CartIdArgs, id \in ItemIdArgs :
          Begin(w, [op |-> "remove_cart_item", c |-> k, p |-> 0, q |-> id], "done",
                "NameError")
    /\ loc' = [loc EXCEPT ![w] = NoLoc]
    /\ UNCHANGED <<db, session, http, deleted_at>>

\* ------------------------------------------------------ Product.soft_delete
\* models/product.py, lines 34-37: deleted_at is set and committed
soft_delete(w) ==
    /\ \E p \in DOMAIN price :
          /\ Begin(w, [op |-> "soft_delete", c |-> 0, p |-> p, q |-> 0], "done", "ok")
          /\ deleted_at' = deleted_at \cup {p}
    /\ Commit(w)
    /\ loc' = [loc EXCEPT ![w] = NoLoc]
    /\ UNCHANGED <<carts, items, price, nextCartId, nextItemId, http>>

\* ------------------------------------------------------- OrderItemService
\* the order ids of the calls: those of the orders, and one that no order has
OrderIdArgs == {o.id : o \in orders} \cup {MaxIdOf(orders) + 1}

\* the product ids of the calls: the seeded ones and one that no product has
ProductIdArgs == Products \cup {NoProduct}

\* OrderItem.query.filter_by(order_id=..., product_id=...)
OrderItemsFor(oid, p) == {oi \in orderItems : oi.order_id = oid /\ oi.product_id = p}

\* order.items, OrderItem.query.filter_by(order_id=order_id)
ItemsOfOrder(oid) == {oi \in orderItems : oi.order_id = oid}

\* add_item_to_order, lines 28-65: the order, the product and the quantity
\* are checked; a new item takes the product's price as price_at_order, an
\* existing one gets the quantity added and the subtotal from the product's
\* price.  Every exception is rolled back and raised as a ValueError.
add_item_to_order(w) ==
    /\ \E oid \in OrderIdArgs, p \in ProductIdArgs, q \in QtyArgs :
         LET found == OrderItemsFor(oid, p)
             r == IF ~\E o \in orders : o.id = oid THEN "OrderNotFound"
                  ELSE IF p \notin DOMAIN price THEN "ProductNotFound"
                  ELSE IF q <= 0 THEN "InvalidQuantity"
                  ELSE "ok"
         IN /\ Begin(w, [op |-> "add_item_to_order", c |-> oid, p |-> p, q |-> q], "done", r)
            /\ IF r # "ok"
               THEN Rollback(w)
               ELSE /\ session' = [session EXCEPT ![w] = NoSession]
                    /\ orders' = orders \cup session[w].orders
                    /\ orderItems' =
                         IF found = {}
                         THEN orderItems \cup session[w].orderItems \cup
                              {[id |-> MaxIdOf(AllOrderItems) + 1, order_id |-> oid,
                                product_id |-> p, quantity |-> q,
                                price_at_order |-> price[p], subtotal |-> price[p] * q]}
                         ELSE LET it == MinId(found)
                              IN (orderItems \ {it}) \cup session[w].orderItems \cup
                                 {[it EXCEPT !.quantity = it.quantity + q,
                                             !.subtotal = (it.quantity + q) * price[p]]}
    /\ loc' = [loc EXCEPT ![w] = NoLoc]
    /\ UNCHANGED <<carts, items, price, nextCartId, nextItemId, http, deleted_at>>

\* remove_item_from_order, lines 85-95
remove_item_from_order(w) ==
    /\ \E oid \in OrderIdArgs, p \in ProductIdArgs :
         LET found == OrderItemsFor(oid, p)
         IN /\ Begin(w, [op |-> "remove_item_from_order", c |-> oid, p |-> p, q |-> 0],
                     "done", IF found = {} THEN "ItemNotFound" ELSE "ok")
            /\ IF found = {}
               THEN Rollback(w)
               ELSE /\ session' = [session EXCEPT ![w] = NoSession]
                    /\ orders' = orders \cup session[w].orders
                    /\ orderItems' = (orderItems \ {MinId(found)}) \cup session[w].orderItems
    /\ loc' = [loc EXCEPT ![w] = NoLoc]
    /\ UNCHANGED <<carts, items, price, nextCartId, nextItemId, http, deleted_at>>

\* update_item_in_order, lines 142-158: the quantity is replaced, the subtotal
\* is the quantity times the item's price_at_order
update_item_in_order(w) ==
    /\ \E oid \in OrderIdArgs, p \in ProductIdArgs, q \in QtyArgs :
         LET found == OrderItemsFor(oid, p)
             r == IF q <= 0 THEN "InvalidQuantity"
                  ELSE IF found = {} THEN "ItemNotFound"
                  ELSE "ok"
         IN /\ Begin(w, [op |-> "update_item_in_order", c |-> oid, p |-> p, q |-> q], "done", r)
            /\ IF r # "ok"
               THEN Rollback(w)
               ELSE LET it == MinId(found)
                    IN /\ session' = [session EXCEPT ![w] = NoSession]
                       /\ orders' = orders \cup session[w].orders
                       /\ orderItems' = (orderItems \ {it}) \cup session[w].orderItems \cup
                                          {[it EXCEPT !.quantity = q,
                                                      !.subtotal = q * it.price_at_order]}
    /\ loc' = [loc EXCEPT ![w] = NoLoc]
    /\ UNCHANGED <<carts, items, price, nextCartId, nextItemId, http, deleted_at>>

\* clear_items_from_order, lines 177-189: an order without items raises
clear_items_from_order(w) ==
    /\ \E oid \in OrderIdArgs :
         /\ Begin(w, [op |-> "clear_items_from_order", c |-> oid, p |-> 0, q |-> 0], "done",
                  IF ItemsOfOrder(oid) = {} THEN "NoItems" ELSE "ok")
         /\ IF ItemsOfOrder(oid) = {}
            THEN Rollback(w)
            ELSE /\ session' = [session EXCEPT ![w] = NoSession]
                 /\ orders' = orders \cup session[w].orders
                 /\ orderItems' = (orderItems \ ItemsOfOrder(oid)) \cup session[w].orderItems
    /\ loc' = [loc EXCEPT ![w] = NoLoc]
    /\ UNCHANGED <<carts, items, price, nextCartId, nextItemId, http, deleted_at>>

\* ------------------------------------------------ OrderService.delete_order
\* delete_order, lines 125-134: the order is deleted, and with it its items
\* (models/order.py line 107, cascade "all, delete-orphan").  The module of
\* the service cannot be imported: the caller gets the ImportError.
delete_order(w) ==
    /\ \E oid \in OrderIdArgs :
         LET r == IF ImportOrderService = "ImportError" THEN "ImportError"
                  ELSE IF ~\E o \in orders : o.id = oid THEN "OrderNotFound"
                  ELSE "ok"
         IN /\ Begin(w, [op |-> "delete_order", c |-> oid, p |-> 0, q |-> 0], "done", r)
            /\ IF r = "ImportError"
               THEN UNCHANGED <<orders, orderItems, session>>
               ELSE IF r # "ok"
               THEN Rollback(w)
               ELSE /\ session' = [session EXCEPT ![w] = NoSession]
                    /\ orders' = {o \in orders \cup session[w].orders : o.id # oid}
                    /\ orderItems' = (orderItems \ ItemsOfOrder(oid)) \cup session[w].orderItems
    /\ loc' = [loc EXCEPT ![w] = NoLoc]
    /\ UNCHANGED <<carts, items, price, nextCartId, nextItemId, http, deleted_at>>

\* ------------------------------------------- ProductService.delete_product
\* a variant of Referenced: the rows that reference the product are not seen
Referenced_never(p) == FALSE

\* Product.order_items and Product.shopping_cart_items (models/product.py
\* lines 29-30): the rows that reference the product.  The relationships have
\* no delete cascade, so the flush of a delete sets the product_id of these
\* rows to NULL, and product_id is not nullable (models/order_item.py line 14,
\* models/shopping_cart_item.py line 12): an IntegrityError.
Referenced(p) == \/ \E i \in items : i.product_id = p
                 \/ \E oi \in orderItems : oi.product_id = p

\* the products table without the row of p
WithoutProduct(p) == [x \in (DOMAIN price) \ {p} |-> price[x]]

\* delete_product, lines 183-192: db.session.delete and the commit; every
\* exception is rolled back and raised as a ValueError
delete_product(w) ==
    /\ \E p \in ProductIdArgs :
         LET r == IF p \notin DOMAIN price THEN "ProductNotFound"
                  ELSE IF Referenced(p) THEN "IntegrityError"
                  ELSE "ok"
         IN /\ Begin(w, [op |-> "delete_product", c |-> 0, p |-> p, q |-> 0], "done", r)
            /\ IF r # "ok"
               THEN /\ Rollback(w)
                    /\ UNCHANGED <<price, deleted_at>>
               ELSE /\ price' = WithoutProduct(p)
                    /\ deleted_at' = deleted_at \ {p}
                    /\ Commit(w)
    /\ loc' = [loc EXCEPT ![w] = NoLoc]
    /\ UNCHANGED <<carts, items, nextCartId, nextItemId, http>>

\* ------------------------------------------------- utils/utils.py, guards
\* the time of a request, and the exp claims of the tokens around it
Now == 1
TokenExps == {Now - 1, Now + 1}

\* the role claims: those of the hierarchy and one that is not in it
Roles == {"user", "admin", "super_admin", "guest"}

\* a token: whether its signature validates, its exp and its role claim
Tokens == [sig : BOOLEAN, exp : TokenExps, role : Roles]

\* the Authorization header split at the blanks, "jwt" standing for the
\* token; <<>> is a request without the header
HeaderShapes == {<<>>, <<"Bearer", "jwt">>, <<"Basic", "jwt">>, <<"jwt">>,
                 <<"Bearer", "jwt", "x">>}

\* a variant of decode_token that does not look at exp
decode_token_ignoring_exp(t) == IF ~t.sig THEN "Invalid token" ELSE "ok"

\* decode_token, lines 50-59: jwt.decode verifies the signature, then exp
decode_token(t) ==
    IF ~t.sig THEN "Invalid token"
    ELSE IF t.exp < Now THEN "Token expired"
    ELSE "ok"

Grant == [status |-> 0, error |-> "none"]
Deny(code, msg) == [status |-> code, error |-> msg]

\* jwt_required, lines 70-84.  The second part of the header is decoded,
\* whatever the first part is; a header of one part is an IndexError.
jwt_required(h, t) ==
    IF h = <<>> THEN Deny(403, "Token is missing!")
    ELSE IF Len(h) < 2 THEN Deny(403, "Token is invalid!")
    ELSE IF decode_token(t) # "ok" THEN Deny(403, "Token is invalid!")
    ELSE Grant

\* a build of utils.py that imports current_app, for comparison
CurrentAppBound_imported == TRUE

\* utils.py line 4 imports request, jsonify and g from flask: current_app,
\* used at lines 117, 120 and 123, is not bound
CurrentAppBound == FALSE

ROLE_HIERARCHY == [user |-> 1, admin |-> 2, super_admin |-> 3]

\* ROLE_HIERARCHY.get(role, 0)
Rank(role) == IF role \in DOMAIN ROLE_HIERARCHY THEN ROLE_HIERARCHY[role] ELSE 0

\* role_required, lines 104-126.  Line 117 raises NameError inside the try,
\* and the handler of line 122 raises it again at line 123: the exception
\* leaves the view (an internal server error).
role_required(required_role, h, t) ==
    IF h = <<>> THEN Deny(403, "Token is missing!")
    ELSE IF Len(h) # 2 \/ h[1] # "Bearer" THEN Deny(403, "Invalid token format.")
    ELSE IF decode_token(t) # "ok"
         THEN IF CurrentAppBound THEN Deny(403, "Token is invalid!")
              ELSE Deny(500, "NameError")
    ELSE IF ~CurrentAppBound THEN Deny(500, "NameError")
    ELSE IF Rank(t.role) < Rank(required_role) THEN Deny(403, "Unauthorized access!")
    ELSE Grant

\* the guarded views: whether jwt_required decorates them, and the role
\* role_required is given ("none": no role_required)
Endpoints ==
    {[name |-> "orders_create", jwt |-> TRUE, role |-> "user"],
     [name |-> "orders_update", jwt |-> TRUE, role |-> "admin"],
     [name |-> "orders_delete", jwt |-> TRUE, role |-> "admin"],
     [name |-> "products_create", jwt |-> TRUE, role |-> "admin"],
     [name |-> "products_update", jwt |-> TRUE, role |-> "admin"],
     [name |-> "products_delete", jwt |-> TRUE, role |-> "admin"],
     [name |-> "users_list", jwt |-> FALSE, role |-> "admin"],
     [name |-> "users_update", jwt |-> FALSE, role |-> "super_admin"],
     [name |-> "categories_list", jwt |-> TRUE, role |-> "none"]}

\* the decorators of a view, outermost first: jwt_required, role_required
Guard(e, h, t) ==
    LET j == IF e.jwt THEN jwt_required(h, t) ELSE Grant
    IN IF j # Grant THEN j
       ELSE IF e.role = "none" THEN Grant
       ELSE role_required(e.role, h, t)

\* a variant of HandlerRuns: the view runs whatever the guard answers
HandlerRuns_always(g) == TRUE

\* lines 84 and 126, return f(*args, **kwargs): reached when no check returned
HandlerRuns(g) == g = Grant

\* the order items of the body of a POST /orders
BodyOrderItems == {[line |-> 1, product_id |-> 1, quantity |-> 1, price_at_order |-> price[1]]}

\* a request to a guarded view.  The view of orders_create calls
\* OrderService.create_order, the view of products_update
\* ProductService.update_product, the view of products_delete
\* ProductService.delete_product; they answer an exception with status 400.
\* The other views change none of the tables of this model.
http_request(w) ==
    /\ \E e \in Endpoints, h \in HeaderShapes, t \in Tokens :
         LET g == Guard(e, h, t)
             run == HandlerRuns(g)
             r == create_order(1, BodyOrderItems)
             created == run /\ e.name = "orders_create" /\ ImportOrderService = "ok"
                            /\ r.raised = "none"
             failed == run /\ e.name = "orders_create" /\ ~created
         IN /\ Begin(w, [op |-> "http", c |-> 0, p |-> 0, q |-> 0], "done", "http")
            /\ http' = [endpoint |-> e.name, required |-> e.role, header |-> h,
                        token |-> t,
                        status |-> IF ~run THEN g.status
                                   ELSE IF failed THEN 400
                                   ELSE IF created THEN 201 ELSE 200,
                        error |-> IF ~run THEN g.error
                                  ELSE IF failed THEN "create_order" ELSE "none",
                        invoked |-> run]
            /\ IF created
               THEN /\ orders' = orders \cup r.orders
                    /\ orderItems' = orderItems \cup r.orderItems
               ELSE UNCHANGED <<orders, orderItems>>
            /\ IF run /\ e.name = "products_update"
               THEN \E a \in (DOMAIN price) \X Prices : price' = [price EXCEPT ![a[1]] = a[2]]
               ELSE IF run /\ e.name = "products_delete"
               THEN \E p \in DOMAIN price :
                       price' = IF Referenced(p) THEN price ELSE WithoutProduct(p)
               ELSE UNCHANGED price
    /\ loc' = [loc EXCEPT ![w] = NoLoc]
    /\ UNCHANGED <<carts, items, nextCartId, nextItemId, session, deleted_at>>

\* ------------------------------------------------------------ specification
\* The first worker takes calls of every service.  While it runs one, the
\* second worker takes cart requests of customers (ShoppingCartService); the
\* workers interleave between the statements of their calls.
Next ==
    \/ \E w \in Procs : call_get_cart(w)
    \/ \E w \in Procs : get_cart_by_customer(w)
    \/ \E w \in Procs : new_cart(w)
    \/ \E w \in Procs : add_item_to_cart(w)
    \/ add_item(1)
    \/ \E w \in Procs : get_product(w)
    \/ \E w \in Procs : find_item(w)
    \/ \E w \in Procs : save_item(w)
    \/ \E w \in Procs : clear_cart(w)
    \/ \E w \in Procs : clear_items(w)
    \/ \E w \in Procs : clear_commit(w)
    \/ \E w \in Procs : checkout_cart(w)
    \/ \E w \in Procs : checkout_items(w)
    \/ \E w \in Procs : checkout_create_order(w)
    \/ update_product(1)
    \/ update_quantity(1)

Spec == Init /\ [][Next]_vars

\* one call at a time: a call begins when the one before it has returned, so
\* the first worker takes every call
SeqNext ==
    \/ call_get_cart(1)
    \/ get_cart_by_customer(1)
    \/ new_cart(1)
    \/ add_item_to_cart(1)
    \/ add_item(1)
    \/ get_product(1)
    \/ find_item(1)
    \/ save_item(1)
    \/ clear_cart(1)
    \/ clear_items(1)
    \/ clear_commit(1)
    \/ checkout_cart(1)
    \/ checkout_items(1)
    \/ checkout_create_order(1)
    \/ update_product(1)
    \/ update_quantity(1)
    \/ remove_item_from_cart(1)
    \/ remove_find(1)
    \/ remove_commit(1)
    \/ update_item_quantity(1)
    \/ remove_item(1)
    \/ remove_cart_item(1)
    \/ soft_delete(1)
    \/ add_item_to_order(1)
    \/ remove_item_from_order(1)
    \/ update_item_in_order(1)
    \/ clear_items_from_order(1)
    \/ delete_order(1)
    \/ delete_product(1)

SeqSpec == Init /\ [][SeqNext]_vars

\* the requests to the guarded views, one at a time, on the seeded tables
GuardNext == http_request(1)

GuardSpec == Init /\ [][GuardNext]_vars

\* ------------------------------------------------------------------ claims
Done(w, op) == pc[w] = "done" /\ call[w].op = op

\* the lines the call of worker w is about that hold its product
LinesOfProduct(w) == {i \in LinesOfCall(call[w]) : i.product_id = call[w].p}

\* the two workers have each finished one call, the second worker's call
\* having begun while the first worker's was running
Overlapped == nOps = 2 /\ nOverlap = 1 /\ pc[1] = "done" /\ pc[2] = "done"

\* C1: two successful calls of add_item_to_cart (or of add_item) for the same
\* cart and product, one after the other, with quantities q1 and q2, leave
\* exactly one line for the product; its quantity is q1 + q2 on top of what
\* the line held before the first call (nothing, when the product was not in
\* the cart) and its subtotal is that quantity times the current price.
C1_AddTwiceAccumulates ==
    \A w \in Procs :
        (/\ pc[w] = "done" /\ call[w].op \in {"add", "add_item"} /\ res[w] = "ok"
         /\ last.op = call[w].op /\ last.c = call[w].c /\ last.p = call[w].p)
        => /\ Cardinality(LinesOfProduct(w)) = 1
           /\ \A i \in LinesOfProduct(w) :
                 /\ i.quantity = last.pre + last.q + call[w].q
                 /\ i.subtotal = (last.pre + last.q + call[w].q) * price[call[w].p]

\* two adds of different quantities for a product that was not in the cart
C1_Witness ==
    \E w \in Procs :
        /\ pc[w] = "done" /\ call[w].op = "add" /\ res[w] = "ok"
        /\ last.op = "add" /\ last.c = call[w].c /\ last.p = call[w].p
        /\ last.pre = 0 /\ last.q # call[w].q
        /\ \E i \in LinesOfProduct(w) : i.quantity = last.q + call[w].q

\* C2: a checkout for a customer whose cart has no line (also when the cart
\* did not exist before the call) raises the empty-cart error and leaves the
\* orders and order items as they were, with nothing pending in the session.
C2_EmptyCartCheckoutFails ==
    \A w \in Procs :
        (Done(w, "checkout") /\ snap[w].lines = {})
        => /\ res[w] = "EmptyCart"
           /\ orders = snap[w].orders
           /\ orderItems = snap[w].orderItems
           /\ session[w] = NoSession

\* the first call is a checkout for customer 2, who had no cart
C2_Witness ==
    \E w \in Procs :
        /\ Done(w, "checkout") /\ nOps = 1 /\ call[w].c \notin {k.customer_id : k \in SeedCarts}
        /\ res[w] = "EmptyCart" /\ CartsOf(call[w].c) # {}

\* the order a finished checkout has created
OrderOfCheckout(w) == {o \in orders \ snap[w].orders : o.id = loc[w].order}

\* C3: a checkout of a cart that has lines returns the order it has created,
\* and the total_price of that order is the sum of the subtotals the lines
\* held before the checkout, which is the sum of its order items' subtotals.
C3_CheckoutTotalIsSumOfLines ==
    \A w \in Procs :
        (Done(w, "checkout") /\ snap[w].lines # {})
        => /\ res[w] = "ok"
           /\ \E o \in OrderOfCheckout(w) :
                 /\ o.total_price = SumSubtotal(snap[w].lines)
                 /\ o.total_price
                      = SumSubtotal({oi \in orderItems : oi.order_id = o.id})

\* C4: a checkout of a cart that has lines returns successfully and leaves
\* the cart of the customer without any line.
C4_CheckoutEmptiesCart ==
    \A w \in Procs :
        (Done(w, "checkout") /\ snap[w].lines # {})
        => res[w] = "ok" /\ ItemsOfCustomer(call[w].c) = {}

C6_PriceAtOrderIsCurrentPrice ==
    \A w \in Procs :
        pc[w] = "create_order"
        => \A oi \in loc[w].order_items : oi.price_at_order = price[oi.product_id]

\* C7: a step of update_product leaves every order and every order item that
\* exists as it is (total_price, price_at_order and subtotal included).
C7_PriceChangeKeepsOrders ==
    [][(call'[1].op = "update_product" /\ nOps' = nOps + 1)
         => (orders \subseteq orders' /\ orderItems \subseteq orderItems')]_vars

\* the price of a product has been changed away from the price_at_order of
\* an order item of that product
C7_Witness ==
    /\ Done(1, "update_product") /\ res[1] = "ok"
    /\ \E oi \in orderItems :
          /\ oi.product_id = call[1].p
          /\ oi.price_at_order # price[oi.product_id]
          /\ oi.subtotal = oi.quantity * oi.price_at_order
          /\ \E o \in orders : o.id = oi.order_id /\ o.total_price = oi.subtotal

\* C8: two overlapping successful calls of add_item_to_cart for the same
\* customer and the same product, which is not in the cart, each of quantity
\* 1, end with exactly one line for the product, of quantity 2.
C8_ConcurrentAddsAccumulate ==
    (/\ Overlapped
     /\ \A w \in Procs : /\ call[w].op = "add" /\ call[w].q = 1
                         /\ res[w] = "ok" /\ PreQuantity(w) = 0
     /\ call[1].c = call[2].c /\ call[1].p = call[2].p)
    => /\ Cardinality(LinesOfProduct(1)) = 1
       /\ \A i \in LinesOfProduct(1) : i.quantity = 2

C10_ConcurrentFirstAccess ==
    (/\ Overlapped
     /\ \A w \in Procs : call[w].op = "get_cart"
     /\ call[1].c = call[2].c
     /\ call[1].c \notin {k.customer_id : k \in SeedCarts})
    => /\ Cardinality(CartsOf(call[1].c)) = 1
       /\ \A w \in Procs : res[w] = "ok"

\* a step that answers a request to a guarded view
HttpStep == call'[1].op = "http" /\ nOps' = nOps + 1

\* the tables a view can change
Tables == <<carts, items, orders, orderItems, price>>

\* the request carries a token that decode_token accepts, in a header of the
\* form "Bearer <token>"
Authenticated(r) == r.header = <<"Bearer", "jwt">> /\ decode_token(r.token) = "ok"

\* C11: a POST /orders with a valid token whose role is admin or super_admin
\* is answered with an error response (status 400 or 403), the view does not
\* run and no order is created.
C11_OnlyUserCreatesOrders ==
    [][(/\ HttpStep /\ http'.endpoint = "orders_create" /\ Authenticated(http')
        /\ http'.token.role \in {"admin", "super_admin"})
       => (/\ http'.status \in {400, 403}
           /\ orders' = orders /\ orderItems' = orderItems)]_vars

\* C12: for a request with a valid token, a view that requires a role runs
\* exactly when the rank of the token's role is at least the rank of the
\* required role (user 1, admin 2, super_admin 3, any other role 0).
C12_RoleHierarchy ==
    (http.required \in DOMAIN ROLE_HIERARCHY /\ Authenticated(http))
    => (http.invoked <=> Rank(http.token.role) >= Rank(http.required))

\* C13: a valid token with role user on a view that requires admin (product
\* create, update, delete, order update, delete, list of users) or
\* super_admin (update of a user), and a valid token with role admin on the
\* update of a user, is answered with status 403, and no table changes.
C13_InsufficientRoleIs403 ==
    [][(/\ HttpStep /\ Authenticated(http')
        /\ http'.required \in {"admin", "super_admin"}
        /\ Rank(http'.token.role) \in 1..(Rank(http'.required) - 1))
       => (http'.status = 403 /\ ~http'.invoked /\ UNCHANGED Tables)]_vars

\* C14: a token whose exp lies in the past and whose signature validates is
\* rejected by decode_token as expired, and on every guarded view, with
\* every role and every header, the view does not run.
C14_ExpiredTokenDenied ==
    (http.endpoint # "none" /\ http.token.sig /\ http.token.exp < Now)
    => (decode_token(http.token) = "Token expired" /\ ~http.invoked)

\* an expired token with the highest role, in a well-formed header, has been
\* refused on a view that both decorators guard and on one that
\* role_required guards alone
C14_Witness ==
    /\ http.token = [sig |-> TRUE, exp |-> Now - 1, role |-> "super_admin"]
    /\ http.header = <<"Bearer", "jwt">>
    /\ http.endpoint \in {"products_update", "users_list"}
    /\ http.status >= 400 /\ ~http.invoked

\* C15: on a view guarded by one decorator only (jwt_required alone, or
\* role_required alone), a request without Authorization header, with a
\* scheme other than Bearer, with a header that is not of two parts, or with
\* a token whose signature does not validate, does not reach the view.
C15_MalformedHeaderDenied ==
    (/\ http.endpoint \in {"categories_list", "users_list", "users_update"}
     /\ \/ http.header = <<>>
        \/ Len(http.header) # 2
        \/ http.header[1] # "Bearer"
        \/ ~http.token.sig)
    => ~http.invoked

\* C16: when the guard of a view denies a request, the view does not run and
\* no table changes; a request whose token is not valid is never answered
\* with the verdict on its role.
C16_DeniedNeverRuns ==
    [][\A e \in Endpoints :
          (/\ HttpStep /\ e.name = http'.endpoint
           /\ Guard(e, http'.header, http'.token) # Grant)
          => (/\ ~http'.invoked
              /\ UNCHANGED Tables
              /\ decode_token(http'.token) # "ok"
                    => http'.error # "Unauthorized access!")]_vars

\* a request with a well-formed header has been denied on the view that
\* updates a product, after an earlier request, and the seeded order and
\* cart line are in place
C16_Witness ==
    /\ nOps = 2 /\ orders = SeedOrders /\ items = SeedItems
    /\ http.endpoint = "products_update" /\ ~http.invoked
    /\ http.status \in {403, 500}
    /\ http.header = <<"Bearer", "jwt">>

\* C17: when the operations on carts (add, update of a quantity, remove,
\* clear, checkout) run one at a time, no cart ever holds two lines for the
\* same product.
C17_OneLinePerProduct ==
    \A i, j \in items :
        (i.cart_id = j.cart_id /\ i.product_id = j.product_id) => i = j

\* a product that was in the cart has been added again, and the cart holds
\* lines of two products
C17_Witness ==
    /\ \E w \in Procs : /\ pc[w] = "done" /\ call[w].op \in {"add", "add_item"}
                        /\ res[w] = "ok" /\ PreQuantity(w) > 0
    /\ \E k \in carts : Cardinality(ItemsOfCart(k.id)) = 2

\* the line a call by line id is about, as it was when the call began
LineBefore(w) == {i \in snap[w].lines : i.id = call[w].c}

\* C18: update_item_quantity on a line, with a quantity that is not positive,
\* raises the invalid-quantity error and leaves the line as it was; with a
\* positive quantity it returns, and the line then has exactly that quantity
\* and the subtotal quantity times the current price of the product.
C18_UpdateReplacesQuantity ==
    \A w \in Procs :
        (Done(w, "update_item_quantity") /\ LineBefore(w) # {})
        => IF call[w].q <= 0
           THEN res[w] = "InvalidQuantity" /\ LineBefore(w) \subseteq items
           ELSE /\ res[w] = "ok"
                /\ \E i \in items : /\ i.id = call[w].c
                                    /\ i.quantity = call[w].q
                                    /\ i.subtotal = call[w].q * price[i.product_id]

\* C19: an add (add_item_to_cart or add_item) of a product that is
\* soft-deleted raises the product-not-found error and leaves the lines of
\* the cart as they were.
C19_SoftDeletedProductNotAdded ==
    \A w \in Procs :
        (/\ pc[w] = "done" /\ call[w].op \in {"add", "add_item"}
         /\ call[w].q > 0 /\ call[w].p \in deleted_at)
        => res[w] = "ProductNotFound" /\ LinesOfCall(call[w]) = snap[w].lines

\* C20: the removal of a line by (cart id, line id), when no line of that
\* cart has the id (no such line, or a line of another cart), raises the
\* line-not-found error and leaves every line in place.
C20_ForeignLineNotRemoved ==
    \A w \in Procs :
        (/\ Done(w, "remove_cart_item")
         /\ ~\E i \in snap[w].lines : i.id = call[w].q /\ i.cart_id = call[w].c)
        => res[w] = "LineNotFound" /\ items = snap[w].lines

\* a step of the call of clear_cart that the first worker runs
ClearStep == call[1].op = "clear" /\ pc[1] \notin {"idle", "done"} /\ pc'[1] # pc[1]

\* C21: clear_cart returns successfully and removes exactly the lines of the
\* customer's cart; when the customer has a cart without lines, no step of
\* the call changes a table, so a clear after a clear changes nothing.
C21_ClearIsIdempotent ==
    [][ClearStep =>
         /\ pc'[1] = "done"
               => (res'[1] = "ok" /\ items' = items \ ItemsOfCustomer(call[1].c))
         /\ (CartsOf(call[1].c) # {} /\ ItemsOfCustomer(call[1].c) = {})
               => UNCHANGED Tables]_vars

\* the cart of customer 1, whose seeded line an earlier call has removed,
\* has been cleared: it exists, it is empty, and the other tables are as seeded
C21_Witness ==
    /\ nOps = 2 /\ Done(1, "clear") /\ res[1] = "ok" /\ call[1].c = 1
    /\ snap[1].lines = {} /\ items = {} /\ carts = SeedCarts
    /\ orders = SeedOrders /\ orderItems = SeedOrderItems

\* C22: no step changes an order that exists: it stays in the orders table
\* with its customer_id and total_price, and the set of its order items
\* (product, quantity, price_at_order, subtotal) stays what it was.
C22_OrdersAreImmutable ==
    [][\A o \in orders :
          /\ o \in orders'
          /\ {oi \in orderItems' : oi.order_id = o.id} = ItemsOfOrder(o.id)]_vars

\* C23: every order item has a positive quantity, a price_at_order that is
\* not negative, and the subtotal quantity times price_at_order.
C23_OrderItemSubtotal ==
    \A oi \in orderItems :
        /\ oi.quantity > 0
        /\ oi.price_at_order >= 0
        /\ oi.subtotal = oi.quantity * oi.price_at_order

\* C24: every cart line and every order item references a product whose row
\* is in the products table.
C24_ReferencedProductExists ==
    /\ \A i \in items : i.product_id \in DOMAIN price
    /\ \A oi \in orderItems : oi.product_id \in DOMAIN price

\* a product without references has been deleted physically, and then the
\* delete of the product of the seeded line and order item has been refused
C24_Witness ==
    /\ nOps = 2 /\ Done(1, "delete_product") /\ res[1] = "IntegrityError"
    /\ call[1].p \in DOMAIN price /\ Referenced(call[1].p)
    /\ DOMAIN price # Products

\* C25: a checkout of a cart that has lines returns the order it has created;
\* the order has exactly one item per line the cart held, with the line's
\* product and quantity, a price_at_order that is the line's subtotal divided
\* by its quantity, and the subtotal quantity times price_at_order, and the
\* total_price of the order is the sum of these subtotals.
C25_OneOrderItemPerLine ==
    \A w \in Procs :
        (Done(w, "checkout") /\ snap[w].lines # {})
        => /\ res[w] = "ok"
           /\ \E o \in OrderOfCheckout(w) :
                 /\ Cardinality(ItemsOfOrder(o.id)) = Cardinality(snap[w].lines)
                 /\ \A i \in snap[w].lines : \E oi \in ItemsOfOrder(o.id) :
                       /\ oi.product_id = i.product_id
                       /\ oi.quantity = i.quantity
                       /\ oi.price_at_order * i.quantity = i.subtotal
                       /\ oi.subtotal = oi.quantity * oi.price_at_order
                 /\ o.total_price = SumSubtotal(ItemsOfOrder(o.id))

\* an add whose quantity is not positive or whose product has no row
FailsValidation(c) ==
    c.op \in {"add", "add_item"} /\ (c.q <= 0 \/ c.p \notin DOMAIN price)

\* C26: no step of an add that fails validation (from its call to its return)
\* changes a table: no cart, cart line, order or order item is created or
\* changed; and the call ends with the error of the validation.
C26_FailedAddLeavesNothing ==
    [][FailsValidation(call'[1]) =>
         /\ UNCHANGED Tables
         /\ pc'[1] = "done" => res'[1] \in {"InvalidQuantity", "ProductNotFound"}]_vars

C28_ConcurrentCheckoutsOneOrder ==
    (/\ Overlapped
     /\ \A w \in Procs : call[w].op = "checkout" /\ snap[w].lines # {}
     /\ call[1].c = call[2].c)
    => /\ Cardinality(orders \ snap[1].orders) <= 1
       /\ \E w \in Procs : res[w] = "EmptyCart"

\* C29: the total_price of every order is the sum of the subtotals of its
\* order items.
C29_TotalIsSumOfItems ==
    \A o \in orders : o.total_price = SumSubtotal(ItemsOfOrder(o.id))

\* the lines of the carts of the customers other than c
LinesOfOthers(c) ==
    {i \in items : \E k \in carts : k.id = i.cart_id /\ k.customer_id # c}

\* C30: a step of add_item_to_cart, remove_item_from_cart, clear_cart or
\* checkout_cart for a customer leaves the lines of the other customers' carts
\* as they are, and every order it creates has the customer_id of the call.
C30_OtherCartsUntouched ==
    [][call'[1].op \in {"add", "remove", "clear", "checkout"} =>
         /\ {i \in items' : \E k \in carts' :
                k.id = i.cart_id /\ k.customer_id # call'[1].c}
              = LinesOfOthers(call'[1].c)
         /\ \A o \in orders' \ orders : o.customer_id = call'[1].c]_vars

\* the cart of customer 1 has been cleared while the cart of another
\* customer holds a line, which is still there
C30_Witness ==
    /\ nOps = 2 /\ Done(1, "clear") /\ res[1] = "ok" /\ call[1].c = 1
    /\ snap[1].lines # {} /\ ItemsOfCustomer(1) = {}
    /\ LinesOfOthers(1) # {}
====
